---- MODULE Spec2Model ----
(***************************************************************************)
(* A model of tensorbuilder.py: Builder (a tensor plus the dictionary of   *)
(* the tf.Variables created so far), BuilderTree (a nested list of         *)
(* Builders), the _immutable decorator and the module functions.           *)
(*                                                                         *)
(* Python objects live in a heap: `nodes` holds the Builder objects,       *)
(* `dicts` the dictionary objects their `variables` fields point to and    *)
(* `trees` the BuilderTree objects.  A Builder's `variables` is the index  *)
(* of a dictionary, so that two Builders can share one dictionary object,  *)
(* exactly as in Python.  TensorFlow is a collaborator: `tfvars` is the    *)
(* list of the tf.Variables of its graph, and a tensor is a static shape   *)
(* with the expression that built it.                                      *)
(***************************************************************************)
EXTENDS Integers, Sequences, FiniteSets, TLC

VARIABLES nodes, dicts, trees, tfvars, frames, call, result, pc, opts

vars == <<nodes, dicts, trees, tfvars, frames, call, result, pc, opts>>

(***************************************************************************)
(* Bounds of the model.                                                    *)
(***************************************************************************)
\* Builder objects the caller holds at one time.
MaxNodes == 3
\* BuilderTree objects the caller holds at one time.
MaxTrees == 1
\* Length of a list handed to branches() or returned by a branch callback.
MaxLen == 2
\* tf.Variables created in the graph.
MaxVars == 3
\* Nesting of then/branch callbacks in progress.
MaxFrames == 1
\* The same bounds for the caller that builds trees, and the room its
\* objects take in all, a Builder counting for 1 and a BuilderTree for 2.
GroveNodes == 4
GroveTrees == 2
GroveVars == 5
GroveObjects == 6

\* None and "" both select the default name (`x if x else default`).
None == ""
\* weights_name / bias_name arguments tried.
NameOpts == {None, "p"}
\* fn arguments of connect_layer tried.
FnOpts == {None, "f"}
\* The keyword arguments of Builder.connect_layer tried: the defaults, an
\* activation without a bias, a named weight, a named bias.
LayerArgs ==
    { [fn |-> None, weights_name |-> None, bias |-> TRUE, bias_name |-> None],
      [fn |-> "f", weights_name |-> None, bias |-> FALSE, bias_name |-> None],
      [fn |-> None, weights_name |-> "p", bias |-> TRUE, bias_name |-> None],
      [fn |-> None, weights_name |-> None, bias |-> TRUE, bias_name |-> "p"] }
\* The keyword arguments of BuilderTree.connect_layer tried by the caller
\* that builds trees: the defaults, neither bias nor activation, an
\* activation without a bias, a named bias.
TreeLayerArgs ==
    { [fn |-> None, weights_name |-> None, bias |-> TRUE, bias_name |-> None],
      [fn |-> None, weights_name |-> None, bias |-> FALSE, bias_name |-> None],
      [fn |-> "f", weights_name |-> None, bias |-> FALSE, bias_name |-> None],
      [fn |-> None, weights_name |-> None, bias |-> TRUE, bias_name |-> "p"] }
\* fn arguments of map tried: "f" returns a tensor of the same shape, "boom" raises.
MapFns == {"f", "boom"}
\* Static shapes of the tensors handed to builder(); dimension 0 stands for None.
InputShapes ==
    << <<3>>, <<0, 2>>, <<0, 3>>, <<0, 2, 2>>, <<0, 5>> >>

(***************************************************************************)
(* The collaborator: tensors, tf.Variable, tf.matmul, tf.add, fn.          *)
(***************************************************************************)
\* Python's None in a Builder's tensor field.
NoneTensor == [shape |-> <<>>, expr |-> <<>>]

Placeholder(i) == [shape |-> InputShapes[i], expr |-> <<"in", i>>]

\* The names TensorFlow gives to unnamed variables, in order of creation.
AutoNameTable ==
    << "Variable:0", "Variable_1:0", "Variable_2:0", "Variable_3:0",
       "Variable_4:0", "Variable_5:0", "Variable_6:0", "Variable_7:0",
       "Variable_8:0", "Variable_9:0", "Variable_10:0", "Variable_11:0",
       "Variable_12:0", "Variable_13:0", "Variable_14:0", "Variable_15:0" >>

\* How many variables of the graph were created without a name.
AutoCount(tv) == Cardinality({k \in 1..Len(tv) : tv[k].auto})

\* tf.Variable in a graph that does not make names unique: every unnamed
\* variable is called "Variable:0".
TfVariableSameName(H, shape, name) ==
    LET vname == IF name # None THEN name ELSE AutoNameTable[1]
    IN  [H |-> [H EXCEPT !.tfvars =
                    Append(@, [shape |-> shape, name |-> vname,
                               auto |-> name = None])],
         ref |-> Len(H.tfvars) + 1,
         name |-> vname]

\* tf.Variable(tf.random_uniform(shape), name=name): a new variable of the
\* graph; its handle is its index, .name is unique among the unnamed ones.
TfVariable(H, shape, name) ==
    LET vname == IF name # None THEN name
                 ELSE AutoNameTable[AutoCount(H.tfvars) + 1]
    IN  [H |-> [H EXCEPT !.tfvars =
                    Append(@, [shape |-> shape, name |-> vname,
                               auto |-> name = None])],
         ref |-> Len(H.tfvars) + 1,
         name |-> vname]

VarTensor(H, h) == [shape |-> H.tfvars[h].shape, expr |-> <<"var", h>>]

\* tf.matmul(a, b): both of rank 2, inner dimensions equal.
TfMatmul(a, b) ==
    IF Len(a.shape) = 2 /\ Len(b.shape) = 2 /\ a.shape[2] = b.shape[1]
    THEN [ok |-> TRUE,
          tensor |-> [shape |-> <<a.shape[1], b.shape[2]>>,
                      expr |-> <<"matmul", a.expr, b.expr>>]]
    ELSE [ok |-> FALSE, tensor |-> NoneTensor]

\* Broadcasting of two dimensions (0 is an unknown dimension).
DimOk(x, y) == x = y \/ x = 1 \/ y = 1 \/ x = 0 \/ y = 0

DimOut(x, y) == IF x = 1 \/ x = 0 THEN (IF y = 1 THEN x ELSE y) ELSE x

\* A shape padded on the left with 1s to rank r.
Pad(s, r) == [k \in 1..r |-> IF k <= r - Len(s) THEN 1 ELSE s[k - (r - Len(s))]]

Max(x, y) == IF x >= y THEN x ELSE y

\* tf.add(a, b) and a + b: elementwise with broadcasting.
TfAdd(a, b) ==
    LET r  == Max(Len(a.shape), Len(b.shape))
        sa == Pad(a.shape, r)
        sb == Pad(b.shape, r)
    IN  IF \A k \in 1..r : DimOk(sa[k], sb[k])
        THEN [ok |-> TRUE,
              tensor |-> [shape |-> [k \in 1..r |-> DimOut(sa[k], sb[k])],
                          expr |-> <<"add", a.expr, b.expr>>]]
        ELSE [ok |-> FALSE, tensor |-> NoneTensor]

\* fn(tensor, ...): "f" and "g" keep the shape; "boom" raises; no fn takes
\* None.
TfApply(fn, t) ==
    IF fn \in {"f", "g"} /\ t # NoneTensor
    THEN [ok |-> TRUE,
          tensor |-> [shape |-> t.shape, expr |-> <<"fn", fn, t.expr, 0>>]]
    ELSE [ok |-> FALSE, tensor |-> NoneTensor]

\* fn(tensor, name=name) with the default name=None: "f" and "boom" have a
\* keyword argument `name`, "g" is a function of the tensor alone and the
\* call raises a TypeError.
TfApplyNamed(fn, t) ==
    IF fn = "g" THEN [ok |-> FALSE, tensor |-> NoneTensor] ELSE TfApply(fn, t)

(***************************************************************************)
(* Dictionaries.                                                           *)
(***************************************************************************)
EmptyDict == [k \in {} |-> 0]

\* d[key] = value
DictSet(d, key, value) ==
    [k \in DOMAIN d \cup {key} |-> IF k = key THEN value ELSE d[k]]

\* d.update(e)
DictUpdate(d, e) ==
    [k \in DOMAIN d \cup DOMAIN e |-> IF k \in DOMAIN e THEN e[k] ELSE d[k]]

Range(f) == {f[k] : k \in DOMAIN f}

(***************************************************************************)
(* The heap and the outcome of a call.                                     *)
(***************************************************************************)
\* The dictionary object that is the default of Builder.__init__'s
\* `variables={}`: one object, made when the class is defined.
DefaultVariables == 1

Heap == [nodes |-> nodes, dicts |-> dicts, tfvars |-> tfvars]

Ok(H, r) == [H |-> H, ok |-> TRUE, ref |-> r, err |-> ""]

Raise(H, e) == [H |-> H, ok |-> FALSE, ref |-> 0, err |-> e]

\* Builder(tensor, variables): a new object holding the two references.
\* `made` is a history field: the variables created on the way to this Builder.
NewBuilder(H, tensor, d, made) ==
    Ok([H EXCEPT !.nodes = Append(@, [tensor |-> tensor, variables |-> d,
                                      made |-> made])],
       Len(H.nodes) + 1)

\* {} or dict.copy(): a new dictionary object.
NewDict(H, content) ==
    [H |-> [H EXCEPT !.dicts = Append(@, content)], ref |-> Len(H.dicts) + 1]

\* Builder.copy with a slip: Builder(self.tensor, self.variables), the copy
\* sharing the receiver's dictionary.
BuilderCopyShared(H, n) ==
    NewBuilder(H, H.nodes[n].tensor, H.nodes[n].variables, H.nodes[n].made)

\* Builder.copy with a slip: `return self`.
BuilderCopySelf(H, n) == Ok(H, n)

\* Builder.copy with a slip: Builder(self.tensor), the variables left out.
BuilderCopyBare(H, n) ==
    LET d == NewDict(H, EmptyDict)
    IN  NewBuilder(d.H, H.nodes[n].tensor, d.ref, H.nodes[n].made)

\* Builder.copy
BuilderCopy(H, n) ==
    LET d == NewDict(H, H.dicts[H.nodes[n].variables])
    IN  NewBuilder(d.H, H.nodes[n].tensor, d.ref, H.nodes[n].made)

\* builder.variables[var_name] = handle
SetVariable(H, b, var_name, h) ==
    [H EXCEPT !.dicts[H.nodes[b].variables] = DictSet(@, var_name, h),
              !.nodes[b].made = @ \cup {h}]

\* builder.tensor = t
SetTensor(H, b, t) == [H EXCEPT !.nodes[b].tensor = t]

\* tensor.get_shape()[1] of a Builder's tensor: what it raises, or "".
ShapeLookupError(t) ==
    IF t = NoneTensor THEN "AttributeError"
    ELSE IF Len(t.shape) < 2 THEN "IndexError"
    ELSE ""

(***************************************************************************)
(* Builder methods.  Each `...Body` is the decorated method, acting on the *)
(* Builder it is handed; the method of the same name without `Body` is     *)
(* what the caller gets from @_immutable: the body run on self.copy().     *)
(***************************************************************************)
\* Builder.connect_weights with a slip: the weights of shape [size, m].
ConnectWeightsBodyTransposed(H, b, size, weights_name) ==
    LET t == H.nodes[b].tensor
        e == ShapeLookupError(t)
    IN  IF e # "" THEN Raise(H, e)
        ELSE LET w  == TfVariable(H, <<size, t.shape[2]>>, weights_name)
                 var_name == IF weights_name # None THEN weights_name ELSE w.name
                 H2 == SetVariable(w.H, b, var_name, w.ref)
                 mm == TfMatmul(t, VarTensor(H2, w.ref))
             IN  IF mm.ok THEN Ok(SetTensor(H2, b, mm.tensor), b)
                 ELSE Raise(H2, "ValueError")

ConnectWeightsBody(H, b, size, weights_name) ==
    LET t == H.nodes[b].tensor
        e == ShapeLookupError(t)
    IN  IF e # "" THEN Raise(H, e)
        ELSE LET w  == TfVariable(H, <<t.shape[2], size>>, weights_name)
                 var_name == IF weights_name # None THEN weights_name ELSE w.name
                 H2 == SetVariable(w.H, b, var_name, w.ref)
                 mm == TfMatmul(t, VarTensor(H2, w.ref))
             IN  IF mm.ok THEN Ok(SetTensor(H2, b, mm.tensor), b)
                 ELSE Raise(H2, "ValueError")

ConnectWeights(H, n, size, weights_name) ==
    LET c == BuilderCopy(H, n)
    IN  ConnectWeightsBody(c.H, c.ref, size, weights_name)

ConnectBiasBody(H, b, bias_name) ==
    LET t == H.nodes[b].tensor
        e == ShapeLookupError(t)
    IN  IF e # "" THEN Raise(H, e)
        ELSE LET v  == TfVariable(H, <<t.shape[2]>>, bias_name)
                 var_name == IF bias_name # None THEN bias_name ELSE v.name
                 H2 == SetVariable(v.H, b, var_name, v.ref)
                 ad == TfAdd(t, VarTensor(H2, v.ref))
             IN  IF ad.ok THEN Ok(SetTensor(H2, b, ad.tensor), b)
                 ELSE Raise(H2, "ValueError")

ConnectBias(H, n, bias_name) ==
    LET c == BuilderCopy(H, n)
    IN  ConnectBiasBody(c.H, c.ref, bias_name)

\* The tail shared by both connect_layer methods:
\*   if fn: builder.tensor = fn(builder.tensor, name=name)
ApplyFn(R, fn) ==
    IF ~R.ok \/ fn = None THEN R
    ELSE LET a == TfApplyNamed(fn, R.H.nodes[R.ref].tensor)
         IN  IF a.ok THEN Ok(SetTensor(R.H, R.ref, a.tensor), R.ref)
             ELSE Raise(R.H, IF fn = "g" THEN "TypeError" ELSE "ValueError")

\* Builder.connect_layer with a slip: `builder = self.connect_bias(...)`,
\* the bias connected to the Builder the method was handed instead of the
\* one connect_weights returned.
ConnectLayerBodyDetached(H, b, size, fn, weights_name, bias, bias_name) ==
    LET w == ConnectWeights(H, b, size, weights_name)
        v == IF w.ok /\ bias THEN ConnectBias(w.H, b, bias_name) ELSE w
    IN  ApplyFn(v, fn)

\* Builder.connect_layer with a slip: fn applied before the bias is
\* connected.
ConnectLayerBodyFnFirst(H, b, size, fn, weights_name, bias, bias_name) ==
    LET w == ConnectWeights(H, b, size, weights_name)
        a == ApplyFn(w, fn)
    IN  IF a.ok /\ bias THEN ConnectBias(a.H, a.ref, bias_name) ELSE a

ConnectLayerBody(H, b, size, fn, weights_name, bias, bias_name) ==
    LET w == ConnectWeights(H, b, size, weights_name)
        v == IF w.ok /\ bias THEN ConnectBias(w.H, w.ref, bias_name) ELSE w
    IN  ApplyFn(v, fn)

ConnectLayer(H, n, size, fn, weights_name, bias, bias_name) ==
    LET c == BuilderCopy(H, n)
    IN  ConnectLayerBody(c.H, c.ref, size, fn, weights_name, bias, bias_name)

MapBody(H, b, fn) ==
    LET a == TfApply(fn, H.nodes[b].tensor)
    IN  IF a.ok THEN Ok(SetTensor(H, b, a.tensor), b) ELSE Raise(H, "ValueError")

Map(H, n, fn) ==
    LET c == BuilderCopy(H, n)
    IN  MapBody(c.H, c.ref, fn)

\* Builder._leafs with a slip: it yields Builder(builder.tensor).
BuilderLeafsBare(H, n) == BuilderCopyBare(H, n)

\* Builder._leafs: a generator that yields the copy it was handed.
BuilderLeafs(H, n) == BuilderCopy(H, n)

(***************************************************************************)
(* BuilderTree.  A branch is <<"B", i>> (the Builder nodes[i]) or          *)
(* <<"T", i>> (the BuilderTree trees[i]).                                  *)
(***************************************************************************)
RECURSIVE LeafsOfBranches(_, _)

\* BuilderTree._leafs without the copies: the Builders a tree holds, in the
\* order the two nested loops reach them.
LeafsOf(T, ref) ==
    IF ref[1] = "B" THEN <<ref[2]>> ELSE LeafsOfBranches(T, T[ref[2]])

\* BuilderTree._leafs with a slip: the branches walked from the last to
\* the first.
LeafsOfBranchesReversed(T, branches) ==
    IF branches = <<>> THEN <<>>
    ELSE LeafsOfBranches(T, Tail(branches)) \o LeafsOf(T, Head(branches))

LeafsOfBranches(T, branches) ==
    IF branches = <<>> THEN <<>>
    ELSE LeafsOf(T, Head(branches)) \o LeafsOfBranches(T, Tail(branches))

RECURSIVE CopyLeafs(_, _, _)

\* The Builders the generator yields: each leaf goes through Builder._leafs,
\* which hands out a copy.  R.seq accumulates them.
CopyLeafs(H, leafs, acc) ==
    IF leafs = <<>> THEN [H |-> H, ok |-> TRUE, seq |-> acc, err |-> ""]
    ELSE LET c == BuilderLeafs(H, Head(leafs))
         IN  CopyLeafs(c.H, Tail(leafs), Append(acc, c.ref))

\* BuilderTree._leafs
TreeLeafs(H, T, t) == CopyLeafs(H, LeafsOfBranches(T, T[t]), <<>>)

RECURSIVE WeighLeafs(_, _, _, _)

\* [ builder.connect_weights(size) for builder in tree._leafs() ]: the
\* generator is consumed lazily, so a leaf is copied only when reached.
WeighLeafs(H, leafs, size, acc) ==
    IF leafs = <<>> THEN [H |-> H, ok |-> TRUE, seq |-> acc, err |-> ""]
    ELSE LET c == BuilderLeafs(H, Head(leafs))
             w == ConnectWeights(c.H, c.ref, size, None)
         IN  IF w.ok THEN WeighLeafs(w.H, Tail(leafs), size, Append(acc, w.ref))
             ELSE [H |-> w.H, ok |-> FALSE, seq |-> acc, err |-> w.err]

RECURSIVE AddLoop(_, _, _, _, _)

\* _add_builders with a slip: an entry already merged is kept when a later
\* Builder has one of the same name.
AddLoopFirstWins(H, builders, tensor, d, made) ==
    IF builders = <<>> THEN NewBuilder(H, tensor, d, made)
    ELSE LET b   == H.nodes[Head(builders)]
             sum == IF tensor = NoneTensor THEN [ok |-> TRUE, tensor |-> b.tensor]
                    ELSE TfAdd(tensor, b.tensor)
             H2  == [H EXCEPT !.dicts[d] = DictUpdate(H.dicts[b.variables], @)]
         IN  IF sum.ok
             THEN AddLoop(H2, Tail(builders), sum.tensor, d, made \cup b.made)
             ELSE Raise(H, "ValueError")

\* The loop of _add_builders: tensor, variables (a dictionary object) and
\* the history field are the loop's running values.
AddLoop(H, builders, tensor, d, made) ==
    IF builders = <<>> THEN NewBuilder(H, tensor, d, made)
    ELSE LET b   == H.nodes[Head(builders)]
             sum == IF tensor = NoneTensor THEN [ok |-> TRUE, tensor |-> b.tensor]
                    ELSE TfAdd(tensor, b.tensor)
             H2  == [H EXCEPT !.dicts[d] = DictUpdate(@, H.dicts[b.variables])]
         IN  IF sum.ok
             THEN AddLoop(H2, Tail(builders), sum.tensor, d, made \cup b.made)
             ELSE Raise(H, "ValueError")

\* _add_builders
AddBuilders(H, builders) ==
    LET d == NewDict(H, EmptyDict)
    IN  AddLoop(d.H, builders, NoneTensor, d.ref, {})

\* BuilderTree.connect_layer (the tree it is handed is a copy whose list is
\* only read)
TreeConnectLayer(H, T, t, size, fn, bias, bias_name) ==
    LET ws == WeighLeafs(H, LeafsOfBranches(T, T[t]), size, <<>>)
        s  == IF ws.ok THEN AddBuilders(ws.H, ws.seq) ELSE Raise(ws.H, ws.err)
        v  == IF s.ok /\ bias THEN ConnectBias(s.H, s.ref, bias_name) ELSE s
    IN  ApplyFn(v, fn)

(***************************************************************************)
(* Reference counting: when a call returns, the Builders and dictionaries  *)
(* it made and did not return are freed.  Compact keeps the objects that   *)
(* existed before the call and the new ones among `keep`, renumbered to    *)
(* follow them; `ids` is `keep` after renumbering.                         *)
(***************************************************************************)
Rank(S, x) == Cardinality({y \in S : y <= x})

Renumber(S, base, x) == IF x <= base THEN x ELSE base + Rank(S, x)

Compact(H, keep) ==
    LET n0 == Len(nodes)
        d0 == Len(dicts)
        kn == {x \in Range(keep) : x > n0}
        kd == {d \in {H.nodes[x].variables : x \in kn} : d > d0}
        PickN(i) == CHOOSE x \in kn : Rank(kn, x) = i - n0
        PickD(i) == CHOOSE d \in kd : Rank(kd, d) = i - d0
    IN  [nodes |-> [i \in 1..(n0 + Cardinality(kn)) |->
                      IF i <= n0 THEN H.nodes[i]
                      ELSE [H.nodes[PickN(i)] EXCEPT
                              !.variables = Renumber(kd, d0, @)]],
         dicts |-> [i \in 1..(d0 + Cardinality(kd)) |->
                      IF i <= d0 THEN H.dicts[i] ELSE H.dicts[PickD(i)]],
         tfvars |-> H.tfvars,
         ids |-> [k \in DOMAIN keep |-> Renumber(kn, n0, keep[k])]]

Store(K) ==
    /\ nodes' = K.nodes
    /\ dicts' = K.dicts
    /\ tfvars' = K.tfvars

(***************************************************************************)
(* What the caller sees of a call: `call` is the call made last, `result`  *)
(* what it returned or raised.                                             *)
(***************************************************************************)
NoRef == <<"-", 0>>

Call(op, recv, size, fn, weights_name, bias, bias_name) ==
    [op |-> op, recv |-> recv, size |-> size, fn |-> fn,
     weights_name |-> weights_name, bias |-> bias, bias_name |-> bias_name]

\* ids: the Builders or the tree returned that the caller holds (0 for one
\* it let go of); tensors, variables: the tensor and the content of the
\* dictionary of each Builder of a returned list.
Result(kind, ids, tensors, err) ==
    [kind |-> kind, ids |-> ids, tensors |-> tensors, variables |-> <<>>,
     err |-> err]

\* A call that returns the Builder R.ref, or raises R.err.
ReturnBuilder(R, c) ==
    /\ call' = c
    /\ IF R.ok
       THEN LET K == Compact(R.H, <<R.ref>>)
            IN  Store(K) /\ result' = Result("builder", K.ids, <<>>, "")
       ELSE Store(Compact(R.H, <<>>)) /\ result' = Result("error", <<>>, <<>>, R.err)

Init ==
    /\ nodes = <<>>
    /\ dicts = <<EmptyDict>>
    /\ trees = <<>>
    /\ tfvars = <<>>
    /\ frames = <<>>
    /\ call = Call("", NoRef, 0, None, None, FALSE, None)
    /\ result = Result("", <<>>, <<>>, "")
    /\ pc = 0
    /\ opts = <<>>

Builders == 1..Len(nodes)

Refs == {<<"B", n>> : n \in Builders} \cup {<<"T", t>> : t \in 1..Len(trees)}

\* The lists of at most len Builders and BuilderTrees.
Lists(len) == UNION {[1..k -> Refs] : k \in 0..len}

\* builder(tensor): Builder(tensor), whose variables is the default object.
builder(i) ==
    /\ ReturnBuilder(NewBuilder(Heap, Placeholder(i), DefaultVariables, {}),
                     Call("builder", NoRef, i, None, None, FALSE, None))
    /\ UNCHANGED <<trees, frames>>

\* branches(builder_list): BuilderTree(builder_list)
branches(list) ==
    /\ trees' = Append(trees, list)
    /\ call' = Call("branches", NoRef, 0, None, None, FALSE, None)
    /\ result' = Result("tree", <<Len(trees) + 1>>, <<>>, "")
    /\ UNCHANGED <<nodes, dicts, tfvars, frames>>

DoConnectWeights(n, size, weights_name) ==
    /\ ReturnBuilder(ConnectWeights(Heap, n, size, weights_name),
                     Call("connect_weights", <<"B", n>>, size, None,
                          weights_name, FALSE, None))
    /\ UNCHANGED <<trees, frames>>

DoConnectBias(n, bias_name) ==
    /\ ReturnBuilder(ConnectBias(Heap, n, bias_name),
                     Call("connect_bias", <<"B", n>>, 0, None, None, TRUE,
                          bias_name))
    /\ UNCHANGED <<trees, frames>>

DoConnectLayer(n, size, fn, weights_name, bias, bias_name) ==
    /\ ReturnBuilder(ConnectLayer(Heap, n, size, fn, weights_name, bias, bias_name),
                     Call("connect_layer", <<"B", n>>, size, fn, weights_name,
                          bias, bias_name))
    /\ UNCHANGED <<trees, frames>>

DoMap(n, fn) ==
    /\ ReturnBuilder(Map(Heap, n, fn),
                     Call("map", <<"B", n>>, 0, fn, None, FALSE, None))
    /\ UNCHANGED <<trees, frames>>

\* list(builder._leafs()): the caller gets the one Builder it yields.
DoLeafs(n) ==
    /\ ReturnBuilder(BuilderLeafs(Heap, n),
                     Call("_leafs", <<"B", n>>, 0, None, None, FALSE, None))
    /\ UNCHANGED <<trees, frames>>

(***************************************************************************)
(* then and branch run a callback on a copy of the receiver.  The call is  *)
(* in progress, with a frame on `frames`, until the callback returns or    *)
(* raises; whatever the callback calls meanwhile are other actions.        *)
(***************************************************************************)
Frame(op, recv, arg) == [op |-> op, recv |-> recv, arg |-> arg]

Top == frames[Len(frames)]

Pop == SubSeq(frames, 1, Len(frames) - 1)

\* The call a frame stands for; its `size` field, which then and branch do
\* not have, holds the Builder that was handed to the callback.
FrameCall(f) == Call(f.op, <<"B", f.recv>>, f.arg, None, None, FALSE, None)

\* Builder.then and Builder.branch with a slip: the methods are not
\* decorated, and the callback is handed the receiver itself.
CallWithSelf(op, n) ==
    /\ frames' = Append(frames, Frame(op, n, n))
    /\ call' = FrameCall(Frame(op, n, n))
    /\ result' = Result("running", <<n>>, <<>>, "")
    /\ UNCHANGED <<nodes, dicts, tfvars, trees>>

\* Builder.then and Builder.branch up to the call of fn(builder)
CallWithCopy(op, n) ==
    LET c == BuilderCopy(Heap, n)
        K == Compact(c.H, <<c.ref>>)
    IN  /\ Store(K)
        /\ frames' = Append(frames, Frame(op, n, K.ids[1]))
        /\ call' = FrameCall(Frame(op, n, K.ids[1]))
        /\ result' = Result("running", K.ids, <<>>, "")
        /\ UNCHANGED trees

\* The callback of then's docstring, sigmoid_layer(builder, size): it
\* assigns to the fields of the Builder it was handed.
SigmoidLayer(H, b, size) ==
    LET t == H.nodes[b].tensor
        e == ShapeLookupError(t)
    IN  IF e # "" THEN Raise(H, e)
        ELSE LET w  == TfVariable(H, <<t.shape[2], size>>, None)
                 v  == TfVariable(w.H, <<size>>, None)
                 H2 == SetVariable(SetVariable(v.H, b, w.name, w.ref),
                                   b, v.name, v.ref)
                 mm == TfMatmul(t, VarTensor(H2, w.ref))
                 ad == IF mm.ok THEN TfAdd(mm.tensor, VarTensor(H2, v.ref)) ELSE mm
                 fn == IF ad.ok THEN TfApply("f", ad.tensor) ELSE ad
             IN  IF fn.ok THEN Ok(SetTensor(H2, b, fn.tensor), b)
                 ELSE Raise(H2, "ValueError")

\* The callback in progress runs sigmoid_layer on its Builder; if that
\* raises, so does the then or branch that called the callback.
CallbackLayer(size) ==
    LET R == SigmoidLayer(Heap, Top.arg, size)
    IN  /\ Store(Compact(R.H, <<>>))
        /\ IF R.ok
           THEN UNCHANGED <<frames, call, result>>
           ELSE /\ frames' = Pop
                /\ call' = FrameCall(Top)
                /\ result' = Result("error", <<>>, <<>>, R.err)
        /\ UNCHANGED trees

\* The callback raises.
CallbackRaise ==
    /\ frames' = Pop
    /\ call' = FrameCall(Top)
    /\ result' = Result("error", <<>>, <<>>, "CallbackError")
    /\ UNCHANGED <<nodes, dicts, trees, tfvars>>

\* Builder.then: return fn(builder)
ThenReturn(r) ==
    /\ Top.op = "then"
    /\ frames' = Pop
    /\ call' = FrameCall(Top)
    /\ result' = Result("builder", <<r>>, <<>>, "")
    /\ UNCHANGED <<nodes, dicts, trees, tfvars>>

\* Builder.branch: branches = fn(builder); return BuilderTree(branches)
BranchReturn(list) ==
    /\ Top.op = "branch"
    /\ frames' = Pop
    /\ trees' = Append(trees, list)
    /\ call' = FrameCall(Top)
    /\ result' = Result("tree", <<Len(trees) + 1>>, <<>>, "")
    /\ UNCHANGED <<nodes, dicts, tfvars>>

(***************************************************************************)
(* BuilderTree methods.                                                    *)
(***************************************************************************)
TreeCall(op, t, size, fn, bias, bias_name) ==
    Call(op, <<"T", t>>, size, fn, None, bias, bias_name)

\* BuilderTree.builders: the list of the copies; the caller keeps those at
\* the positions `kept` (all of them or none) and lets go of the others.  result.tensors has the
\* tensor of every Builder of the list.
DoBuilders(t, kept) ==
    LET R == TreeLeafs(Heap, trees, t)
        K == Compact(R.H, [k \in 1..Len(R.seq) |->
                             IF k \in kept THEN R.seq[k] ELSE 0])
    IN  /\ Store(K)
        /\ call' = TreeCall("builders", t, 0, None, FALSE, None)
        /\ result' =
             [Result("builders", K.ids,
                     [k \in 1..Len(R.seq) |-> R.H.nodes[R.seq[k]].tensor], "")
              EXCEPT !.variables =
                 [k \in 1..Len(R.seq) |->
                     R.H.dicts[R.H.nodes[R.seq[k]].variables]]]
        /\ UNCHANGED <<trees, frames>>

\* BuilderTree.tensors
DoTensors(t) ==
    LET R == TreeLeafs(Heap, trees, t)
    IN  /\ Store(Compact(R.H, <<>>))
        /\ call' = TreeCall("tensors", t, 0, None, FALSE, None)
        /\ result' = Result("tensors", <<>>,
                            [k \in 1..Len(R.seq) |-> R.H.nodes[R.seq[k]].tensor],
                            "")
        /\ UNCHANGED <<trees, frames>>

DoTreeConnectLayer(t, size, fn, bias, bias_name) ==
    /\ ReturnBuilder(TreeConnectLayer(Heap, trees, t, size, fn, bias, bias_name),
                     TreeCall("connect_layer", t, size, fn, bias, bias_name))
    /\ UNCHANGED <<trees, frames>>

(***************************************************************************)
(* The caller: any call on any object it holds, within the bounds of a     *)
(* profile P: how many objects it holds and which arguments it passes.     *)
(***************************************************************************)
NodeRoom(P, k) ==
    /\ Len(nodes) + k <= P.nodes
    /\ Len(nodes) + 2 * Len(trees) + k <= P.objects

TreeRoom(P) ==
    /\ Len(trees) < P.trees
    /\ Len(nodes) + 2 * Len(trees) + 2 <= P.objects

VarRoom(P, k) == Len(tfvars) + k <= P.vars

NLeafs(t) == Len(LeafsOfBranches(trees, trees[t]))

CallBuilder(P) ==
    \E i \in P.inputs :
        NodeRoom(P, 1) /\ builder(i) /\ UNCHANGED <<pc, opts>>

CallBranches(P) ==
    \E list \in Lists(P.len) :
        TreeRoom(P) /\ branches(list) /\ UNCHANGED <<pc, opts>>

CallConnectWeights(P) ==
    \E n \in Builders, size \in P.sizes, weights_name \in P.names :
        /\ VarRoom(P, 1)
        /\ ConnectWeights(Heap, n, size, weights_name).ok => NodeRoom(P, 1)
        /\ DoConnectWeights(n, size, weights_name)
        /\ UNCHANGED <<pc, opts>>

CallConnectBias(P) ==
    \E n \in Builders, bias_name \in P.names :
        /\ VarRoom(P, 1)
        /\ ConnectBias(Heap, n, bias_name).ok => NodeRoom(P, 1)
        /\ DoConnectBias(n, bias_name)
        /\ UNCHANGED <<pc, opts>>

CallConnectLayer(P) ==
    \E n \in Builders, size \in P.sizes, a \in P.layers :
        /\ VarRoom(P, IF a.bias THEN 2 ELSE 1)
        /\ ConnectLayer(Heap, n, size, a.fn, a.weights_name, a.bias,
                        a.bias_name).ok => NodeRoom(P, 1)
        /\ DoConnectLayer(n, size, a.fn, a.weights_name, a.bias, a.bias_name)
        /\ UNCHANGED <<pc, opts>>

CallMap(P) ==
    \E n \in Builders, fn \in MapFns :
        /\ Map(Heap, n, fn).ok => NodeRoom(P, 1)
        /\ DoMap(n, fn)
        /\ UNCHANGED <<pc, opts>>

CallLeafs(P) ==
    \E n \in Builders :
        NodeRoom(P, 1) /\ DoLeafs(n) /\ UNCHANGED <<pc, opts>>

CallThen(P) ==
    \E n \in Builders :
        /\ NodeRoom(P, 1) /\ Len(frames) < P.frames
        /\ CallWithCopy("then", n)
        /\ UNCHANGED <<pc, opts>>

CallBranch(P) ==
    \E n \in Builders :
        /\ NodeRoom(P, 1) /\ Len(frames) < P.frames /\ TreeRoom(P)
        /\ CallWithCopy("branch", n)
        /\ UNCHANGED <<pc, opts>>

InCallbackLayer(P) ==
    \E size \in P.sizes :
        /\ frames # <<>> /\ VarRoom(P, 2)
        /\ CallbackLayer(size)
        /\ UNCHANGED <<pc, opts>>

InCallbackRaise ==
    frames # <<>> /\ CallbackRaise /\ UNCHANGED <<pc, opts>>

InCallbackReturn(P) ==
    /\ frames # <<>>
    /\ \/ \E r \in Builders : ThenReturn(r)
       \/ \E list \in Lists(P.len) : TreeRoom(P) /\ BranchReturn(list)
    /\ UNCHANGED <<pc, opts>>

CallBuilders(P) ==
    \E t \in 1..Len(trees) :
        \E kept \in {{}, 1..NLeafs(t)} :
            /\ NodeRoom(P, Cardinality(kept))
            /\ DoBuilders(t, kept)
            /\ UNCHANGED <<pc, opts>>

CallTensors ==
    \E t \in 1..Len(trees) : DoTensors(t) /\ UNCHANGED <<pc, opts>>

CallTreeConnectLayer(P) ==
    \E t \in 1..Len(trees), size \in P.sizes, a \in P.layers :
        /\ VarRoom(P, NLeafs(t) + (IF a.bias THEN 1 ELSE 0))
        /\ a.weights_name = None
        /\ TreeConnectLayer(Heap, trees, t, size, a.fn, a.bias,
                            a.bias_name).ok => NodeRoom(P, 1)
        /\ DoTreeConnectLayer(t, size, a.fn, a.bias, a.bias_name)
        /\ UNCHANGED <<pc, opts>>

\* A caller of every method: a rank-1, a rank-2 and a rank-3 input.
Chain ==
    [nodes |-> MaxNodes, trees |-> MaxTrees, objects |-> MaxNodes + 2 * MaxTrees,
     vars |-> MaxVars, frames |-> MaxFrames, len |-> MaxLen,
     inputs |-> {1, 2, 4}, sizes |-> {3}, names |-> NameOpts,
     layers |-> LayerArgs]

Next ==
    \/ CallBuilder(Chain)
    \/ CallConnectWeights(Chain)
    \/ CallConnectBias(Chain)
    \/ CallConnectLayer(Chain)
    \/ CallMap(Chain)
    \/ CallLeafs(Chain)
    \/ CallThen(Chain)
    \/ CallBranch(Chain)
    \/ InCallbackLayer(Chain)
    \/ InCallbackRaise
    \/ InCallbackReturn(Chain)
    \/ CallTreeConnectLayer(Chain)

Spec == Init /\ [][Next]_vars

\* A caller that groups Builders into trees and fans them in: inputs of
\* widths 2 and 3, weights named "p" to make names collide.
Grove ==
    [nodes |-> GroveNodes, trees |-> GroveTrees, objects |-> GroveObjects,
     vars |-> GroveVars, frames |-> 0, len |-> MaxLen,
     inputs |-> {2, 3}, sizes |-> {2}, names |-> {"p"},
     layers |-> TreeLayerArgs]

TreeNext ==
    \/ CallBuilder(Grove)
    \/ CallConnectWeights(Grove)
    \/ CallBranches(Grove)
    \/ CallBuilders(Grove)
    \/ CallTensors
    \/ CallTreeConnectLayer(Grove)

TreeSpec == Init /\ [][TreeNext]_vars

(***************************************************************************)
(* The caller of branch's docstring:                                       *)
(*   x.builder().connect_layer(10).branch(lambda base: [                   *)
(*       base.connect_layer(3),                                            *)
(*       base.connect_layer(9).branch(lambda base2: [                      *)
(*           base2.connect_layer(6), base2.connect_layer(8) ]) ])          *)
(*    .connect_layer(6)                                                    *)
(* with x of shape [None, 5].  Each connect_layer is called with or        *)
(* without an activation and with or without a bias; `opts` records the    *)
(* choices.  The objects are numbered as they are made: Builders 1 (x),    *)
(* 2 (the first layer), 3 (base), 4, 5 (the layers of 3 and 9), 6 (base2), *)
(* 7, 8 (the layers of 6 and 8), and the trees 1 (inner) and 2 (outer).    *)
(***************************************************************************)
ExampleInput == 5

\* The receiver and the size of the connect_layer made at each step.
ExampleLayers ==
    [k \in {1, 3, 4, 6, 7} |->
        CASE k = 1 -> [recv |-> 1, size |-> 10]
          [] k = 3 -> [recv |-> 3, size |-> 3]
          [] k = 4 -> [recv |-> 3, size |-> 9]
          [] k = 6 -> [recv |-> 6, size |-> 6]
          [] k = 7 -> [recv |-> 6, size |-> 8]]

ExampleDone == 11

ExampleBuilder ==
    /\ pc = 0
    /\ builder(ExampleInput)
    /\ pc' = 1
    /\ UNCHANGED opts

ExampleLayer ==
    /\ pc \in DOMAIN ExampleLayers
    /\ \E fn \in FnOpts, bias \in BOOLEAN :
        /\ DoConnectLayer(ExampleLayers[pc].recv, ExampleLayers[pc].size, fn,
                          None, bias, None)
        /\ opts' = Append(opts, [fn |-> fn, bias |-> bias])
    /\ pc' = pc + 1

ExampleBranch ==
    /\ pc \in {2, 5}
    /\ CallWithCopy("branch", Len(nodes))
    /\ pc' = pc + 1
    /\ UNCHANGED opts

ExampleReturn ==
    /\ pc \in {8, 9}
    /\ BranchReturn(IF pc = 8 THEN << <<"B", 7>>, <<"B", 8>> >>
                    ELSE << <<"B", 4>>, <<"T", 1>> >>)
    /\ pc' = pc + 1
    /\ UNCHANGED opts

ExampleFanIn ==
    /\ pc = 10
    /\ \E fn \in FnOpts, bias \in BOOLEAN :
        /\ DoTreeConnectLayer(2, 6, fn, bias, None)
        /\ opts' = Append(opts, [fn |-> fn, bias |-> bias])
    /\ pc' = ExampleDone

ExampleNext ==
    \/ ExampleBuilder
    \/ ExampleLayer
    \/ ExampleBranch
    \/ ExampleReturn
    \/ ExampleFanIn

ExampleSpec == Init /\ [][ExampleNext]_vars

(***************************************************************************)
(* Two threads that each build a chain from one shared Builder.  A thread  *)
(* may be switched out between any two statements of a method, so a call   *)
(* is a sequence of steps; `frames[t]` is the call thread t is in: `cur`   *)
(* is the Builder its chain has reached, `work` the copy the method in     *)
(* progress was handed, `at` the statement it is at.  `mine` is a history  *)
(* field: the variables the thread's calls that returned have created.     *)
(***************************************************************************)
\* Calls a thread makes.
MaxOps == 2

ThreadIds == {1, 2}

\* The calls the threads make, by their `op` and the name they pass.
ThreadOps ==
    { [op |-> "connect_weights", name |-> None],
      [op |-> "connect_weights", name |-> "p"],
      [op |-> "connect_bias", name |-> None] }

\* The heap after shared = builder(x).connect_weights(size), x of shape
\* [None, 2]: the Builder `SharedStart` is the one both threads start from.
SharedHeap ==
    LET H0 == [nodes |-> <<>>, dicts |-> <<EmptyDict>>, tfvars |-> <<>>]
        b  == NewBuilder(H0, Placeholder(2), DefaultVariables, {})
    IN  ConnectWeights(b.H, b.ref, 3, None)

SharedStart == SharedHeap.ref

Idle(cur, mine, n) ==
    [at |-> "idle", cur |-> cur, work |-> 0, op |-> "", arg |-> None,
     name |-> "", h |-> 0, mine |-> mine, n |-> n]

ThreadInit ==
    /\ nodes = SharedHeap.H.nodes
    /\ dicts = SharedHeap.H.dicts
    /\ tfvars = SharedHeap.H.tfvars
    /\ trees = <<>>
    /\ frames = [t \in ThreadIds |-> Idle(SharedStart, {}, 0)]
    /\ call = Call("", NoRef, 0, None, None, FALSE, None)
    /\ result = Result("", <<>>, <<>>, "")
    /\ pc = 0
    /\ opts = <<>>

ThreadStep(t, f) ==
    /\ frames' = [frames EXCEPT ![t] = f]
    /\ UNCHANGED <<trees, call, result, pc, opts>>

\* _immutable: the method is entered with self.copy().
ThreadEnter(t) ==
    \E o \in ThreadOps :
        LET f == frames[t]
            c == BuilderCopy(Heap, f.cur)
        IN  /\ f.at = "idle" /\ f.n < MaxOps
            /\ o.name # None => o.name \notin DOMAIN dicts[nodes[f.cur].variables]
            /\ Store(c.H)
            /\ ThreadStep(t, [f EXCEPT !.at = "entered", !.work = c.ref,
                                       !.op = o.op, !.arg = o.name])

\* tf.Variable, first half: the graph picks the name of the new variable
\* from the names in use.
ThreadName(t) ==
    LET f == frames[t]
    IN  /\ f.at = "entered"
        /\ ThreadStep(t, [f EXCEPT !.at = "named",
                            !.name = IF f.arg # None THEN f.arg
                                     ELSE AutoNameTable[AutoCount(tfvars) + 1]])
        /\ UNCHANGED <<nodes, dicts, tfvars>>

\* The name picked was given to a variable of the other thread meanwhile.
NameTaken(f) ==
    f.arg = None /\ \E k \in DOMAIN tfvars : tfvars[k].auto /\ tfvars[k].name = f.name

\* tf.Variable, second half: the variable is added to the graph.  The graph
\* is not made for two threads: when the name was taken meanwhile, the
\* variable is added all the same or the graph raises (ThreadRaise).
ThreadCreate(t) ==
    LET f == frames[t]
        m == nodes[f.work].tensor.shape[2]
        shape == IF f.op = "connect_weights" THEN <<m, 3>> ELSE <<m>>
    IN  /\ f.at = "named"
        /\ tfvars' = Append(tfvars, [shape |-> shape, name |-> f.name,
                                     auto |-> f.arg = None])
        /\ ThreadStep(t, [f EXCEPT !.at = "created", !.h = Len(tfvars) + 1])
        /\ UNCHANGED <<nodes, dicts>>

\* The graph refuses the name: the method raises and the thread's chain
\* stays where it was.
ThreadRaise(t) ==
    LET f == frames[t]
    IN  /\ f.at = "named" /\ NameTaken(f)
        /\ ThreadStep(t, Idle(f.cur, f.mine, f.n + 1))
        /\ UNCHANGED <<nodes, dicts, tfvars>>

\* builder.variables[var_name] = w
ThreadRecord(t) ==
    LET f == frames[t]
    IN  /\ f.at = "created"
        /\ Store(SetVariable(Heap, f.work, f.name, f.h))
        /\ ThreadStep(t, [f EXCEPT !.at = "recorded"])

\* builder.tensor = tf.matmul(...) or tf.add(...); return builder
ThreadReturn(t) ==
    LET f == frames[t]
        x == nodes[f.work].tensor
        r == IF f.op = "connect_weights" THEN TfMatmul(x, VarTensor(Heap, f.h))
             ELSE TfAdd(x, VarTensor(Heap, f.h))
    IN  /\ f.at = "recorded"
        /\ IF r.ok
           THEN /\ Store(SetTensor(Heap, f.work, r.tensor))
                /\ ThreadStep(t, Idle(f.work, f.mine \cup {f.h}, f.n + 1))
           ELSE /\ UNCHANGED <<nodes, dicts, tfvars>>
                /\ ThreadStep(t, Idle(f.cur, f.mine, f.n + 1))

ThreadNext ==
    \E t \in ThreadIds :
        \/ ThreadEnter(t)
        \/ ThreadName(t)
        \/ ThreadCreate(t)
        \/ ThreadRaise(t)
        \/ ThreadRecord(t)
        \/ ThreadReturn(t)

ThreadSpec == ThreadInit /\ [][ThreadNext]_vars

(***************************************************************************)
(* A caller of connect_layer with a bias, with every fn and every pair of  *)
(* names, on Builders made by builder and connect_weights.                 *)
(***************************************************************************)
\* fn arguments: an activation, a function without the keyword `name`, a
\* function that raises, none.
LayerFns == {"f", "g", "boom", None}

Pipe ==
    [nodes |-> MaxNodes, trees |-> 0, objects |-> MaxNodes,
     vars |-> MaxVars, frames |-> 0, len |-> 0,
     inputs |-> {1, 2, 4}, sizes |-> {3}, names |-> NameOpts,
     layers |-> [fn : LayerFns, weights_name : NameOpts, bias : {TRUE},
                 bias_name : NameOpts]]

LayerNext ==
    \/ CallBuilder(Pipe)
    \/ CallConnectWeights(Pipe)
    \/ CallConnectLayer(Pipe)

LayerSpec == Init /\ [][LayerNext]_vars

(***************************************************************************)
(* Properties.                                                             *)
(***************************************************************************)
Variables(n) == dicts[nodes[n].variables]

\* The Builder nodes[n] is the same after the step as before it: its tensor,
\* its dictionary object and what the dictionary holds.
Untouched(n) ==
    /\ nodes'[n].tensor = nodes[n].tensor
    /\ nodes'[n].variables = nodes[n].variables
    /\ dicts'[nodes[n].variables] = dicts[nodes[n].variables]

\* The step is the callback in progress assigning to the Builder it was
\* handed (or failing while it does).
CallbackAssigns ==
    frames # <<>> /\ \E size \in Chain.sizes : CallbackLayer(size)

\* C1: immutability.  No step of connect_weights, connect_bias,
\* connect_layer, map, then, branch or _leafs changes the tensor or the
\* variables of a Builder that exists when it is taken; the only Builder
\* that changes is the copy a callback was handed, when the callback
\* assigns to it.
C1_Immutability ==
    [][\A n \in Builders :
          \/ Untouched(n)
          \/ CallbackAssigns /\ n = Top.arg]_vars

\* C1's case: then has returned the Builder its callback was handed and
\* assigned to, which now differs from the receiver in tensor and variables.
C1_Witness ==
    /\ call.op = "then"
    /\ result.kind = "builder"
    /\ result.ids = <<call.size>>
    /\ call.size # call.recv[2]
    /\ nodes[call.size].tensor # nodes[call.recv[2]].tensor
    /\ DOMAIN Variables(call.size) # DOMAIN Variables(call.recv[2])

(***************************************************************************)
(* C2                                                                      *)
(***************************************************************************)
IsBuilderCall(op) == call.op = op /\ call.recv[1] = "B"

Rank2(n) == Len(nodes[n].tensor.shape) = 2

\* The step is a call of Builder.connect_layer with default names on a
\* Builder whose tensor is 2-D.
LayerOn2D ==
    /\ ~CallbackAssigns
    /\ call'.op = "connect_layer" /\ call'.recv[1] = "B"
    /\ call'.weights_name = None /\ call'.bias_name = None
    /\ Rank2(call'.recv[2])

\* C2: parameter accumulation.  Builder.connect_layer with default names on
\* a Builder whose tensor is 2-D returns a Builder whose variables hold
\* every entry of the receiver's with the same handle, and exactly two more
\* keys with a bias, exactly one more without.
C2_ParameterAccumulation ==
    [][LayerOn2D =>
          /\ result'.kind = "builder"
          /\ LET old == Variables(call'.recv[2])
                 new == dicts'[nodes'[result'.ids[1]].variables]
             IN  /\ DOMAIN old \subseteq DOMAIN new
                 /\ \A k \in DOMAIN old : new[k] = old[k]
                 /\ Cardinality(DOMAIN new \ DOMAIN old) =
                       IF call'.bias THEN 2 ELSE 1]_vars

\* C2's case: a connect_layer with a bias and default names has returned,
\* on a receiver that already had an entry.
C2_Witness ==
    /\ IsBuilderCall("connect_layer")
    /\ call.weights_name = None /\ call.bias_name = None /\ call.bias
    /\ result.kind = "builder"
    /\ Variables(call.recv[2]) # EmptyDict
    /\ Cardinality(DOMAIN Variables(result.ids[1])) =
          Cardinality(DOMAIN Variables(call.recv[2])) + 2

(***************************************************************************)
(* C4                                                                      *)
(***************************************************************************)
\* The step is a call of connect_weights, connect_bias or connect_layer on
\* a Builder whose tensor is not 2-D, or of connect_layer on a tree one of
\* whose leaves is such a Builder.
CallOnNon2D ==
    /\ ~CallbackAssigns
    /\ call'.op \in {"connect_weights", "connect_bias", "connect_layer"}
    /\ IF call'.recv[1] = "B" THEN ~Rank2(call'.recv[2])
       ELSE \E n \in Range(LeafsOf(trees, call'.recv)) : ~Rank2(n)

\* C4: shape precondition.  Such a call raises, and it raises before any
\* tf.Variable is created (whatever the error is called).
C4_ShapePrecondition ==
    [][CallOnNon2D => result'.kind = "error" /\ tfvars' = tfvars]_vars

(***************************************************************************)
(* C7                                                                      *)
(***************************************************************************)
\* The names under which the variables S were stored.
Names(S) == {tfvars[h].name : h \in S}

\* C7 as claimed: the variables of every Builder hold exactly the handles
\* created on the way to it.
C7_NothingDropped ==
    \A n \in Builders : Range(Variables(n)) = nodes[n].made

\* C7 as the code has it: the variables of a Builder hold only handles
\* created on the way to it, one under each name used on the way (a handle
\* that was created under that name); every handle created is there when
\* no name was used twice.
C7_OnePerName ==
    \A n \in Builders :
        /\ Range(Variables(n)) \subseteq nodes[n].made
        /\ DOMAIN Variables(n) = Names(nodes[n].made)
        /\ \A k \in DOMAIN Variables(n) : tfvars[Variables(n)[k]].name = k
        /\ Cardinality(Names(nodes[n].made)) = Cardinality(nodes[n].made)
              => Range(Variables(n)) = nodes[n].made

\* C7's case: a Builder made by two connect_weights under the same name,
\* which holds the second handle only.
C7_Witness ==
    \E n \in Builders :
        /\ Cardinality(nodes[n].made) = 2
        /\ Cardinality(Names(nodes[n].made)) = 1
        /\ Cardinality(DOMAIN Variables(n)) = 1

(***************************************************************************)
(* C9                                                                      *)
(***************************************************************************)
\* C9: a call that raises leaves every Builder and every BuilderTree that
\* existed before it as it was (the Builder a failing callback was handed
\* is the call's own copy).
C9_FailureLeavesState ==
    [][result'.kind = "error" =>
          /\ \A n \in Builders :
                Untouched(n) \/ (CallbackAssigns /\ n = Top.arg)
          /\ \A t \in 1..Len(trees) : trees'[t] = trees[t]]_vars

\* C9's case: connect_layer on a tree has raised on its second leaf, after
\* the first was weighted.
C9_Witness ==
    /\ call.op = "connect_layer" /\ call.recv[1] = "T"
    /\ result.kind = "error"
    /\ LET leafs == LeafsOf(trees, call.recv)
       IN  /\ Len(leafs) = 2
           /\ Rank2(leafs[1])
           /\ nodes[leafs[2]].tensor # NoneTensor /\ ~Rank2(leafs[2])
    /\ tfvars # <<>>

(***************************************************************************)
(* C3                                                                      *)
(***************************************************************************)
IsTreeCall(op) == call.op = op /\ call.recv[1] = "T"

\* C3: fan-in rejects empty.  connect_layer on a tree without leaves raises,
\* whatever bias and fn are; it never returns a Builder.
C3_EmptyTreeRejected ==
    IsTreeCall("connect_layer") /\ LeafsOf(trees, call.recv) = <<>>
        => result.kind = "error"

(***************************************************************************)
(* C5                                                                      *)
(***************************************************************************)
RECURSIVE PathsOf(_)

\* The positions of the Builders in a nested list: a position is the
\* sequence of the indices that lead to the Builder.
PathsOf(list) ==
    UNION { IF list[i][1] = "B" THEN {<<i>>}
            ELSE {<<i>> \o q : q \in PathsOf(trees[list[i][2]])}
            : i \in DOMAIN list }

RECURSIVE At(_, _)

\* The Builder at a position.
At(list, q) ==
    IF Len(q) = 1 THEN list[q[1]][2]
    ELSE At(trees[list[q[1]][2]], Tail(q))

\* Depth first, left to right: q comes before r when q has the smaller
\* index where they first differ.
Before(q, r) ==
    \E k \in DOMAIN q \cap DOMAIN r :
        q[k] < r[k] /\ \A j \in 1..(k - 1) : q[j] = r[j]

\* The place of position q among the positions S, from 1.
Place(S, q) == Cardinality({r \in S : Before(r, q)}) + 1

\* C5: leaf order.  builders() and tensors() return one element for every
\* occurrence of a Builder in the nested lists of the tree, in depth-first,
\* left-to-right order: the element at the place of an occurrence has the
\* tensor (and for builders(), the variables) of the Builder that occurs.
C5_LeafOrder ==
    IsTreeCall("builders") \/ IsTreeCall("tensors") =>
        LET S == PathsOf(trees[call.recv[2]])
        IN  /\ Len(result.tensors) = Cardinality(S)
            /\ \A q \in S :
                  LET n == At(trees[call.recv[2]], q)
                      k == Place(S, q)
                  IN  /\ result.tensors[k] = nodes[n].tensor
                      /\ IsTreeCall("builders") =>
                            /\ result.variables[k] = Variables(n)
                            /\ result.ids[k] # 0 =>
                                  /\ nodes[result.ids[k]].tensor = nodes[n].tensor
                                  /\ Variables(result.ids[k]) = Variables(n)

\* C5's case: tensors() of a tree whose list holds a tree and a Builder,
\* three leaves in all, not all of the same tensor.
C5_Witness ==
    /\ IsTreeCall("tensors")
    /\ \E i \in DOMAIN trees[call.recv[2]] : trees[call.recv[2]][i][1] = "T"
    /\ Len(result.tensors) = 3
    /\ result.tensors[1] # result.tensors[2]

\* C5's case for builders(): the caller holds the two Builders returned,
\* which differ.
C5_WitnessBuilders ==
    /\ IsTreeCall("builders")
    /\ Len(result.ids) = 2 /\ result.ids[1] # 0
    /\ result.tensors[1] # result.tensors[2]

(***************************************************************************)
(* C6                                                                      *)
(***************************************************************************)
\* The step is a connect_layer on a tree with a leaf, which returned.
FanIn ==
    /\ call'.op = "connect_layer" /\ call'.recv[1] = "T"
    /\ LeafsOf(trees, call'.recv) # <<>>
    /\ result'.kind = "builder"

RECURSIVE SumOf(_, _, _)

\* The sum, in leaf order, of the products of the first i leaves with the
\* variables base + 1 .. base + i.
SumOf(leafs, base, i) ==
    LET product == <<"matmul", nodes[leafs[i]].tensor.expr, <<"var", base + i>> >>
    IN  IF i = 1 THEN product
        ELSE <<"add", SumOf(leafs, base, i - 1), product>>

\* The leaves' dictionaries merged in leaf order: under each key, the entry
\* of the last leaf that has the key.
Merged(leafs) ==
    [k \in UNION {DOMAIN Variables(leafs[i]) : i \in DOMAIN leafs} |->
        LET last == CHOOSE i \in DOMAIN leafs :
                        /\ k \in DOMAIN Variables(leafs[i])
                        /\ \A j \in DOMAIN leafs :
                              j > i => k \notin DOMAIN Variables(leafs[j])
        IN  Variables(leafs[last])[k]]

\* C6: fan-in structure.  A connect_layer on a tree of L >= 1 leaves that
\* returns has created L variables, one weight per leaf, and one more with a
\* bias; the tensor of the Builder returned is the sum of the L products
\* in leaf order, then the bias added, then fn applied; its variables are
\* the leaves' merged in leaf order plus the L weights and the bias.
C6_FanInStructure ==
    [][FanIn =>
        LET leafs == LeafsOf(trees, call'.recv)
            L     == Len(leafs)
            base  == Len(tfvars)
            new   == base + L + (IF call'.bias THEN 1 ELSE 0)
            sum   == SumOf(leafs, base, L)
            added == IF call'.bias THEN <<"add", sum, <<"var", new>> >> ELSE sum
            out   == IF call'.fn # None THEN <<"fn", call'.fn, added, 0>> ELSE added
            r     == nodes'[result'.ids[1]]
            d     == dicts'[r.variables]
            fresh == (base + 1)..new
        IN  /\ Len(tfvars') = new
            /\ Len(result'.ids) = 1
            /\ r.tensor.expr = out
            /\ DOMAIN d = DOMAIN Merged(leafs) \cup {tfvars'[h].name : h \in fresh}
            /\ \A h \in fresh : d[tfvars'[h].name] = h
            /\ \A k \in DOMAIN Merged(leafs) :
                  d[k] \notin fresh => d[k] = Merged(leafs)[k]]_vars

\* C6's case: a fan-in with a bias of two leaves that both have an entry
\* "p", with different handles; the Builder returned has the second's.
C6_Witness ==
    /\ IsTreeCall("connect_layer") /\ call.bias /\ result.kind = "builder"
    /\ LET leafs == LeafsOf(trees, call.recv)
       IN  /\ Len(leafs) = 2
           /\ "p" \in DOMAIN Variables(leafs[1]) \cap DOMAIN Variables(leafs[2])
           /\ Variables(leafs[1])["p"] # Variables(leafs[2])["p"]
           /\ Variables(result.ids[1])["p"] = Variables(leafs[2])["p"]
           /\ Cardinality(DOMAIN Variables(result.ids[1])) = 4

(***************************************************************************)
(* C10                                                                     *)
(***************************************************************************)
\* The step is a connect_layer on a tree with a leaf, all leaves 2-D.
FanInOn2D ==
    /\ call'.op = "connect_layer" /\ call'.recv[1] = "T"
    /\ LeafsOf(trees, call'.recv) # <<>>
    /\ \A n \in Range(LeafsOf(trees, call'.recv)) : Rank2(n)

\* C10: fan-in shape generality.  connect_layer(size) on a tree whose
\* leaves are 2-D, of any widths, returns; the weight of each leaf has the
\* shape [the leaf's width, size], the bias the shape [size], and the
\* tensor returned is 2-D of width size.
C10_FanInShapes ==
    [][FanInOn2D =>
        LET leafs == LeafsOf(trees, call'.recv)
            base  == Len(tfvars)
        IN  /\ result'.kind = "builder"
            /\ \A i \in DOMAIN leafs :
                  tfvars'[base + i].shape =
                      <<nodes[leafs[i]].tensor.shape[2], call'.size>>
            /\ call'.bias => tfvars'[Len(tfvars')].shape = <<call'.size>>
            /\ Len(nodes'[result'.ids[1]].tensor.shape) = 2
            /\ nodes'[result'.ids[1]].tensor.shape[2] = call'.size]_vars

\* C10's case: a fan-in with a bias of two leaves of different widths has
\* returned.
C10_Witness ==
    /\ IsTreeCall("connect_layer") /\ call.bias /\ result.kind = "builder"
    /\ LET leafs == LeafsOf(trees, call.recv)
       IN  /\ Len(leafs) = 2
           /\ Rank2(leafs[1]) /\ Rank2(leafs[2])
           /\ nodes[leafs[1]].tensor.shape[2] # nodes[leafs[2]].tensor.shape[2]
    /\ nodes[result.ids[1]].tensor.shape[2] = call.size

(***************************************************************************)
(* C8                                                                      *)
(***************************************************************************)
\* The scenario was run as written: every connect_layer with its defaults.
AsWritten == \A k \in DOMAIN opts : opts[k].bias /\ opts[k].fn = None

\* How many of the scenario's connect_layers had a bias.
Biases == Cardinality({k \in DOMAIN opts : opts[k].bias})

\* C8 as claimed: the scenario as written returns one Builder whose
\* variables hold an entry for each variable created, and the variables
\* created are 2 + 1 + 1 + 2 + 1.
C8_ScenarioAsClaimed ==
    pc = ExampleDone /\ AsWritten =>
        /\ result.kind = "builder" /\ Len(result.ids) = 1
        /\ Range(Variables(result.ids[1])) = 1..Len(tfvars)
        /\ Len(tfvars) = 2 + 1 + 1 + 2 + 1

\* C8 as the code has it: the scenario returns one Builder whose variables
\* hold, each under a key of its own, every variable created: a weight for
\* each of the five connect_layers on a Builder and for each of the three
\* leaves of the fan-in, and a bias for each connect_layer that has one,
\* 14 as written.
C8_Scenario ==
    pc = ExampleDone =>
        /\ result.kind = "builder" /\ Len(result.ids) = 1
        /\ Range(Variables(result.ids[1])) = 1..Len(tfvars)
        /\ Cardinality(DOMAIN Variables(result.ids[1])) = Len(tfvars)
        /\ Len(tfvars) = 5 + 3 + Biases
        /\ AsWritten => Len(tfvars) = 14

\* C8's case: the scenario has run as written.
C8_Witness ==
    /\ pc = ExampleDone /\ AsWritten
    /\ result.kind = "builder"
    /\ Cardinality(DOMAIN Variables(result.ids[1])) = 14

(***************************************************************************)
(* C11                                                                     *)
(***************************************************************************)
\* The step is builder(x) returning.
Wrapped == call'.op = "builder" /\ result'.kind = "builder"

\* The step is builders() of a tree.
Flattened == call'.op = "builders" /\ call'.recv[1] = "T"

\* C11: round trip.  builder(x) returns a Builder whose tensor is x and
\* whose variables are empty.  builders() of a tree whose list is one
\* Builder returns one Builder, of the same tensor and equal variables;
\* builders() leaves every tree as it was, and called again on the same
\* tree it returns the same tensors and variables.
C11_RoundTrip ==
    [][/\ Wrapped =>
            /\ nodes'[result'.ids[1]].tensor = Placeholder(call'.size)
            /\ dicts'[nodes'[result'.ids[1]].variables] = EmptyDict
       /\ Flattened =>
            /\ trees' = trees
            /\ \A n \in Builders :
                  trees[call'.recv[2]] = << <<"B", n>> >> =>
                      /\ Len(result'.tensors) = 1
                      /\ result'.tensors[1] = nodes[n].tensor
                      /\ result'.variables[1] = Variables(n)
            /\ IsTreeCall("builders") /\ call.recv = call'.recv =>
                  /\ result'.tensors = result.tensors
                  /\ result'.variables = result.variables]_vars

\* C11's case: builders() of a tree whose list is one Builder made by
\* builder(x) was called twice, and the caller holds both Builders returned.
C11_Witness ==
    /\ IsTreeCall("builders")
    /\ \E n \in Builders :
          /\ trees[call.recv[2]] = << <<"B", n>> >>
          /\ nodes[n].variables = DefaultVariables
          /\ nodes[n].tensor = Placeholder(nodes[n].tensor.expr[2])
          /\ result.ids # <<0>>
          /\ \E m \in Builders \ {n, result.ids[1]} :
                /\ nodes[m].variables # DefaultVariables
                /\ nodes[m].tensor = nodes[n].tensor
                /\ Variables(m) = EmptyDict
                /\ nodes[result.ids[1]].variables # nodes[m].variables
                /\ nodes[result.ids[1]].tensor = nodes[m].tensor
                /\ Variables(result.ids[1]) = Variables(m)

Decomposed(H, n, size, fn, w, b) ==
    LET x == ConnectWeights(H, n, size, w)
        y == IF x.ok THEN ConnectBias(x.H, x.ref, b) ELSE x
    IN  IF y.ok /\ fn # None THEN Map(y.H, y.ref, fn) ELSE y

\* The step is a connect_layer with a bias on a Builder, its fn (if any)
\* one that has the keyword `name`, as connect_layer requires of it.
LayerWithBias ==
    /\ call'.op = "connect_layer" /\ call'.recv[1] = "B"
    /\ call'.bias /\ call'.fn # "g"

\* C13: layer decomposition.  connect_layer(size, fn, weights_name, bias_name)
\* does what connect_weights(size, weights_name), connect_bias(bias_name)
\* and map(fn) do one after the other: the same tf.Variables created in the
\* same order, the same tensor and the same variables in the Builder
\* returned, or the same error.
C13_LayerDecomposition ==
    [][LayerWithBias =>
        LET x == Decomposed(Heap, call'.recv[2], call'.size, call'.fn,
                            call'.weights_name, call'.bias_name)
        IN  /\ tfvars' = x.H.tfvars
            /\ (result'.kind = "builder") = x.ok
            /\ x.ok =>
                 /\ nodes'[result'.ids[1]].tensor = x.H.nodes[x.ref].tensor
                 /\ dicts'[nodes'[result'.ids[1]].variables] =
                       x.H.dicts[x.H.nodes[x.ref].variables]
            /\ ~x.ok => result'.kind = "error" /\ result'.err = x.err]_vars

\* C13's case: connect_layer(size, fn=f) has returned, on a Builder that
\* had an entry.
C13_Witness ==
    /\ IsBuilderCall("connect_layer") /\ call.bias /\ call.fn = "f"
    /\ call.weights_name = None /\ call.bias_name = None
    /\ result.kind = "builder"
    /\ Variables(call.recv[2]) # EmptyDict
    /\ nodes[result.ids[1]].tensor.expr[1] = "fn"
    /\ nodes[result.ids[1]].tensor.expr[3][1] = "add"

(***************************************************************************)
(* C14                                                                     *)
(***************************************************************************)
RECURSIVE Inputs(_)

\* The tensors handed to builder() that an expression was built from.
Inputs(e) ==
    IF e = <<>> THEN {}
    ELSE CASE e[1] = "in" -> {e[2]}
           [] e[1] = "var" -> {}
           [] e[1] = "fn" -> Inputs(e[3])
           [] OTHER -> Inputs(e[2]) \cup Inputs(e[3])

\* C14: fresh roots stay empty and unshared.  The dictionary that is the
\* default of Builder's `variables` is empty in every state the calls
\* reach, so every Builder that builder() made has no variables; and two
\* Builders built from different inputs have no variable in common.
C14_FreshRoots ==
    /\ dicts[DefaultVariables] = EmptyDict
    /\ \A n \in Builders :
          nodes[n].variables = DefaultVariables => Variables(n) = EmptyDict
    /\ \A n, m \in Builders :
          Inputs(nodes[n].tensor.expr) \cap Inputs(nodes[m].tensor.expr) = {}
             => Range(Variables(n)) \cap Range(Variables(m)) = {}

\* C14's case: builder() has just made a Builder, after a callback added
\* entries to the copy it was handed of another Builder made by builder().
C14_Witness ==
    /\ call.op = "builder" /\ result.kind = "builder"
    /\ nodes[result.ids[1]].variables = DefaultVariables
    /\ frames # <<>>
    /\ nodes[Top.recv].variables = DefaultVariables
    /\ Top.recv # result.ids[1]
    /\ nodes[Top.recv].tensor.expr # nodes[result.ids[1]].tensor.expr
    /\ Cardinality(DOMAIN Variables(Top.arg)) = 2
    /\ Variables(result.ids[1]) = EmptyDict

====
